---- MODULE Spec2Model ----
(***************************************************************************)
(* Model of the WalkerEnv environment controller (rg2/csrc/src/WalkerEnv.cpp) *)
(* together with the parts of the physics backend and of the visualization   *)
(* server that the controller talks to.                                      *)
(*                                                                           *)
(* Real numbers are fixed-point integers in hundredths (Scale == 100):       *)
(* 0.50 is 50, 1.0 is 100, -0.8 is -80.  Vectors are sequences; the C++      *)
(* index k is the TLA+ index k + 1.  Time steps are integer multiples of an  *)
(* unnamed grid unit, so that their ratio is an exact rational.              *)
(***************************************************************************)
EXTENDS Integers, Sequences, FiniteSets, TLC

\* ------------------------------------------------------------------ bounds
MaxControlDt == 4
MaxSimDt == 2
MaxContacts == 2
MaxAction == 1

\* ------------------------------------------------------- program constants
Scale == 100
gcDim == 19
gvDim == 18
nJoints == gvDim - 6
obDim == 1 + 3 + 3 + 3 + nJoints * 2
actionDim == nJoints
action_std == 30
jointPgainValue == 5000
jointDgainValue == 20
terminalRewardCoeff_ == -1000

\* ------------------------------------------------------------ vector helpers
Zero(n) == [k \in 1..n |-> 0]

Constant(n, v) == [k \in 1..n |-> v]

VecTail(v, n) == SubSeq(v, Len(v) - n + 1, Len(v))

Segment(v, start, n) == SubSeq(v, start + 1, start + n)

\* v with its last n entries replaced by t (Eigen: v.tail(n) = t)
SetTail(v, n, t) == [k \in 1..Len(v) |-> IF k > Len(v) - n THEN t[k - (Len(v) - n)] ELSE v[k]]

\* fixed-point product of two hundredths
FxMul(a, b) == (a * b) \div Scale

CwiseProduct(a, b) == [k \in 1..Len(a) |-> FxMul(a[k], b[k])]

CwiseSum(a, b) == [k \in 1..Len(a) |-> a[k] + b[k]]

Min(a, b) == IF a < b THEN a ELSE b

\* float(x): narrowing to a 24-bit significand; the grid values below 2^24 are kept
CastFloat(x) ==
  LET m == IF x < 0 THEN 0 - x ELSE x
      q == IF m < 16777216 THEN m ELSE (m \div 256) * 256
  IN IF x < 0 THEN 0 - q ELSE q

CastFloatVec(v) == [k \in 1..Len(v) |-> CastFloat(v[k])]

\* ----------------------------------------------------------- default values
\* gcInit_ << 0, 0, 0.50, 1.0, 0, 0, 0, 0.03, 0.4, -0.8, ... (WalkerEnv.cpp:43)
DefaultGcInit ==
  <<0, 0, 50, 100, 0, 0, 0, 3, 40, -80, -3, 40, -80, 3, -40, 80, -3, -40, 80>>

DefaultPgain == [k \in 1..gvDim |-> IF k > gvDim - nJoints THEN jointPgainValue ELSE 0]

DefaultDgain == [k \in 1..gvDim |-> IF k > gvDim - nJoints THEN jointDgainValue ELSE 0]

\* robot_->getBodyIdx of the four shank links
FootBodyIdx == [LF_SHANK |-> 3, RF_SHANK |-> 6, LH_SHANK |-> 9, RH_SHANK |-> 12]

\* --------------------------------------------------------------- observation
\* raisim::quatToRotMat on q = (w, x, y, z); the result is <<row0, row1, row2>>
QuatToRotMat(q) ==
  LET w == q[1]
      x == q[2]
      y == q[3]
      z == q[4]
  IN << << (w * w + x * x - y * y - z * z) \div Scale,
           (2 * x * y - 2 * w * z) \div Scale,
           (2 * w * y + 2 * x * z) \div Scale >>,
        << (2 * w * z + 2 * x * y) \div Scale,
           (w * w - x * x + y * y - z * z) \div Scale,
           (2 * y * z - 2 * w * x) \div Scale >>,
        << (2 * x * z - 2 * w * y) \div Scale,
           (2 * w * x + 2 * y * z) \div Scale,
           (w * w - x * x - y * y + z * z) \div Scale >> >>

\* rot.e().transpose() * v
TransposeMul(rot, v) ==
  [c \in 1..3 |-> (rot[1][c] * v[1] + rot[2][c] * v[2] + rot[3][c] * v[3]) \div Scale]

BodyLinearVel(g, v) == TransposeMul(QuatToRotMat(Segment(g, 3, 4)), Segment(v, 0, 3))

BodyAngularVel(g, v) == TransposeMul(QuatToRotMat(Segment(g, 3, 4)), Segment(v, 3, 3))

\* obDouble_ << gc_[2], rot.e().row(2).transpose(), gc_.tail(nJoints_),
\*              bodyLinearVel_, bodyAngularVel_, gv_.tail(nJoints_)
Observation(g, v) ==
  <<g[3]>> \o QuatToRotMat(Segment(g, 3, 4))[3] \o VecTail(g, nJoints)
    \o BodyLinearVel(g, v) \o BodyAngularVel(g, v) \o VecTail(v, nJoints)

\* ------------------------------------------------------------------- timing
\* A double near the rational num/den: num/den + eps * 1e-10 + ulp * (rounding error),
\* with the rounding error far below 1e-10 and 1e-10 far below 1/den.
FpErrors == {-1, 0, 1}

Divide(c, s, fe) == [num |-> c, den |-> s, eps |-> 0, ulp |-> fe]

PlusEpsilon(x) == [x EXCEPT !.eps = @ + 1]

\* CastInt rounding to the nearest integer instead of truncating
CastIntRound(x) ==
  LET q == x.num \div x.den
      r == x.num % x.den
  IN IF 2 * r >= x.den THEN q + 1 ELSE q

\* int(x) of a non-negative double: truncation
CastInt(x) ==
  LET q == x.num \div x.den
      r == x.num % x.den
      tiny == IF x.eps # 0 THEN x.eps ELSE x.ulp
  IN IF r = 0 /\ tiny < 0 /\ q > 0 THEN q - 1 ELSE q

\* the 1e-10 of line 121 is 1 / (EpsInvRoot * EpsInvRoot)
EpsInvRoot == 100000

\* SubSteps without the 1e-10: int(control_dt_ / simulation_dt_)
SubStepsNoEpsilon(c, s, fe) == CastInt(Divide(c, s, fe))

\* int(control_dt_ / simulation_dt_ + 1e-10)
SubSteps(c, s, fe) == CastInt(PlusEpsilon(Divide(c, s, fe)))

\* -------------------------------------------------------------- termination
\* the loop of isTerminalState over robot_->getContacts(): TRUE at the first
\* contact whose body is not a foot
\* HasNonFootContact looking at the first contact only
HasNonFootContactFirstOnly(cs, feet) == cs # <<>> /\ Head(cs) \notin feet

RECURSIVE HasNonFootContact(_, _)
HasNonFootContact(cs, feet) ==
  IF cs = <<>> THEN FALSE
  ELSE IF Head(cs) \notin feet THEN TRUE
  ELSE HasNonFootContact(Tail(cs), feet)

\* ------------------------------------------------------------------- reward
\* -4e-5 * squaredNorm + 0.3 * min(4.0, bodyLinearVel_[0]) in units of 1e-5,
\* narrowed to float
Reward(forceSqNorm, linVel) == CastFloat(300 * Min(400, linVel[1]) - 4 * forceSqNorm)

\* ------------------------------------------------------------------ inputs
Fields == <<"gcInit", "gvInit", "actionMean", "actionStd", "pGain", "dGain">>

\* the dimension each argument of setInitConstants is asserted against
FieldDim == [gcInit |-> gcDim, gvInit |-> gvDim, actionMean |-> actionDim,
             actionStd |-> actionDim, pGain |-> gvDim, dGain |-> gvDim]

DefaultArgs ==
  [gcInit |-> DefaultGcInit, gvInit |-> Zero(gvDim),
   actionMean |-> VecTail(DefaultGcInit, nJoints),
   actionStd |-> Constant(actionDim, action_std),
   pGain |-> DefaultPgain, dGain |-> DefaultDgain]

AltArgs ==
  [gcInit |-> <<0, 0, 60, 60, 80, 0, 0>> \o Constant(nJoints, 10),
   gvInit |-> <<100, 200, 0, 0, 0, 10>> \o Zero(nJoints),
   actionMean |-> Constant(actionDim, 10),
   actionStd |-> Constant(actionDim, 50),
   pGain |-> Constant(gvDim, 4000), dGain |-> Constant(gvDim, 10)]

\* AltArgs with one argument one entry too short: the first, a middle and the
\* last of the asserted arguments
ShortArgs == {[AltArgs EXCEPT ![f] = SubSeq(@, 1, Len(@) - 1)] : f \in {"gcInit", "actionStd", "dGain"}}

InitConstantArgs == {DefaultArgs, AltArgs} \cup ShortArgs

ActionVectors ==
  {[k \in 1..actionDim |-> IF k % 2 = 0 THEN 0 - a * Scale ELSE a * Scale] : a \in 1..MaxAction}

ControlDts == 1..MaxControlDt

SimDts == 1..MaxSimDt

ContactBodies == {0, FootBodyIdx.LF_SHANK}

ContactLists == UNION {[1..n -> ContactBodies] : n \in 0..MaxContacts}

\* What one world_->integrate() can leave behind (the dynamics are the backend's):
\* the robot runs upright on its feet with the joints at their targets, or it has
\* tumbled, joints slack, and touches the ground with its base.
Running(cs) ==
  [h |-> 48, quat |-> <<100, 0, 0, 0>>, vlin |-> <<500, 0, 0>>, vang |-> <<0, 0, 10>>,
   track |-> TRUE, jv |-> 10, force |-> 4, contacts |-> cs]

Tumbled(cs) ==
  [h |-> 20, quat |-> <<60, 80, 0, 0>>, vlin |-> <<100, -100, 20>>, vang |-> <<10, 0, 0>>,
   track |-> FALSE, jv |-> -10, force |-> 9, contacts |-> cs]

TouchesBase(cs) == \E k \in 1..Len(cs) : cs[k] = 0

WorldOutcomes ==
  {Running(cs) : cs \in {l \in ContactLists : ~TouchesBase(l)}}
    \cup {Tumbled(cs) : cs \in {l \in ContactLists : TouchesBase(l)}}

\* ------------------------------------------------------------------- state
VARIABLES
  gc_, gv_, gcInit_, gvInit_, pTarget_, vTarget_, actionMean_, actionStd_,
  obDouble_, bodyLinearVel_, bodyAngularVel_, control_dt_, simulation_dt_,
  footIndices_, server_,
  robotGc, robotGv, pdTarget, pdGains, genForceSqNorm, contacts, worldTimeStep,
  integrating,
  visMutex, killCount,
  pc, i, integrateCount, lockCount, call, ret, initialized

initConsts == <<gcInit_, gvInit_, actionMean_, actionStd_>>

obsVars == <<gc_, gv_, obDouble_, bodyLinearVel_, bodyAngularVel_>>

timing == <<control_dt_, simulation_dt_>>

envVars == <<initConsts, obsVars, timing, pTarget_, vTarget_, footIndices_, server_>>

robotVars == <<robotGc, robotGv, pdTarget, pdGains, genForceSqNorm, contacts,
               worldTimeStep, integrating>>

serverVars == <<visMutex, killCount>>

loopVars == <<i, integrateCount, lockCount>>

vars == <<envVars, robotVars, serverVars, loopVars, pc, call, ret, initialized>>

\* ---------------------------------------------------------------- construct
\* WalkerEnv::WalkerEnv: createWorldAndRobot, initializeContainers, setPdGains,
\* initializeObservationSpace and, if visualizable, initializeVisualization
\* (server_ is set iff visualizable).  The constructor neither sets the robot's
\* state nor calls updateObservation: the robot is in the backend's default state
\* (zero coordinates, identity orientation) and obDouble_ is zero.  control_dt_
\* and simulation_dt_ start with the defaults of the class declaration, here any
\* pair of the modelled values; the world's time step is the backend's default,
\* one grid unit.
Init ==
  /\ gc_ = Zero(gcDim)
  /\ gv_ = Zero(gvDim)
  /\ gcInit_ = DefaultGcInit
  /\ gvInit_ = Zero(gvDim)
  /\ pTarget_ = Zero(gcDim)
  /\ vTarget_ = Zero(gvDim)
  /\ actionMean_ = VecTail(DefaultGcInit, nJoints)
  /\ actionStd_ = Constant(actionDim, action_std)
  /\ obDouble_ = Zero(obDim)
  /\ bodyLinearVel_ = Zero(3)
  /\ bodyAngularVel_ = Zero(3)
  /\ control_dt_ \in ControlDts
  /\ simulation_dt_ \in SimDts
  /\ footIndices_ = {FootBodyIdx.LF_SHANK, FootBodyIdx.RF_SHANK,
                     FootBodyIdx.LH_SHANK, FootBodyIdx.RH_SHANK}
  /\ server_ \in BOOLEAN
  /\ robotGc = <<0, 0, 0, Scale, 0, 0, 0>> \o Zero(nJoints)
  /\ robotGv = Zero(gvDim)
  /\ pdTarget = <<Zero(gcDim), Zero(gvDim)>>
  /\ pdGains = <<DefaultPgain, DefaultDgain>>
  /\ genForceSqNorm = 0
  /\ contacts = <<>>
  /\ worldTimeStep = 1
  /\ integrating = FALSE
  /\ visMutex = "free"
  /\ killCount = 0
  /\ pc = "ready"
  /\ i = 0
  /\ integrateCount = 0
  /\ lockCount = 0
  /\ call = [op |-> "construct", arg |-> server_]
  /\ ret = <<>>
  /\ initialized = FALSE

\* ------------------------------------------------------- init, reset, observe
\* robot_->getState(gc_, gv_) and the assembly of obDouble_, on the robot state (g, v)
UpdateObservation(g, v) ==
  /\ gc_' = g
  /\ gv_' = v
  /\ bodyLinearVel_' = BodyLinearVel(g, v)
  /\ bodyAngularVel_' = BodyAngularVel(g, v)
  /\ obDouble_' = Observation(g, v)

\* Entry of an API call: call names the operation and its argument; the counters
\* of integrate calls and of lock acquisitions are those of the current call;
\* initialized tells that init(), reset() or step() has been called.
Enter(op, arg) ==
  /\ call' = [op |-> op, arg |-> arg]
  /\ initialized' = (initialized \/ op \in {"init", "reset", "step"})
  /\ i' = 0
  /\ integrateCount' = 0
  /\ lockCount' = 0

\* SetState restoring the coordinates but not the velocities
SetStateKeepVelocity ==
  /\ robotGc' = gcInit_
  /\ UNCHANGED <<robotGv, pdTarget, pdGains, genForceSqNorm, contacts, worldTimeStep,
                 integrating>>

\* robot_->setState(gcInit_, gvInit_)
SetState ==
  /\ robotGc' = gcInit_
  /\ robotGv' = gvInit_
  /\ UNCHANGED <<pdTarget, pdGains, genForceSqNorm, contacts, worldTimeStep, integrating>>

InitEnv ==
  /\ pc = "ready"
  /\ SetState
  /\ UpdateObservation(robotGc', robotGv')
  /\ Enter("init", <<>>)
  /\ ret' = <<>>
  /\ UNCHANGED <<initConsts, timing, pTarget_, vTarget_, footIndices_, server_,
                 serverVars, pc>>

Reset ==
  /\ pc = "ready"
  /\ SetState
  /\ UpdateObservation(robotGc', robotGv')
  /\ Enter("reset", <<>>)
  /\ ret' = <<>>
  /\ UNCHANGED <<initConsts, timing, pTarget_, vTarget_, footIndices_, server_,
                 serverVars, pc>>

Observe ==
  /\ pc = "ready"
  /\ Enter("observe", <<>>)
  /\ ret' = CastFloatVec(obDouble_)
  /\ UNCHANGED <<envVars, robotVars, serverVars, pc>>

\* ----------------------------------------------------------- setInitConstants
\* the first assertion of setInitConstants that fails on a, or "" when all hold
FailedAssert(a) ==
  IF \E f \in 1..Len(Fields) : Len(a[Fields[f]]) # FieldDim[Fields[f]]
  THEN Fields[CHOOSE f \in 1..Len(Fields) :
                /\ Len(a[Fields[f]]) # FieldDim[Fields[f]]
                /\ \A g \in 1..(f - 1) : Len(a[Fields[g]]) = FieldDim[Fields[g]]]
  ELSE ""

\* SetInitConstants storing each argument right after its own assertion, before
\* the later arguments are asserted
SetInitConstantsAssignFirst(a) ==
  /\ pc = "ready"
  /\ Enter("setInitConstants", a)
  /\ gcInit_' = IF FailedAssert(a) \in {"", "gvInit", "actionMean", "actionStd", "pGain", "dGain"}
                THEN a.gcInit ELSE gcInit_
  /\ gvInit_' = IF FailedAssert(a) \in {"", "actionMean", "actionStd", "pGain", "dGain"}
                THEN a.gvInit ELSE gvInit_
  /\ actionMean_' = IF FailedAssert(a) \in {"", "actionStd", "pGain", "dGain"}
                    THEN a.actionMean ELSE actionMean_
  /\ actionStd_' = IF FailedAssert(a) \in {"", "pGain", "dGain"}
                   THEN a.actionStd ELSE actionStd_
  /\ pdGains' = IF FailedAssert(a) = "" THEN <<a.pGain, a.dGain>> ELSE pdGains
  /\ pc' = IF FailedAssert(a) # "" THEN "aborted" ELSE pc
  /\ ret' = IF FailedAssert(a) # "" THEN FailedAssert(a) ELSE <<>>
  /\ UNCHANGED <<obsVars, timing, pTarget_, vTarget_, footIndices_, server_,
                 robotGc, robotGv, pdTarget, genForceSqNorm, contacts, worldTimeStep,
                 integrating, serverVars>>

SetInitConstants(a) ==
  /\ pc = "ready"
  /\ Enter("setInitConstants", a)
  /\ IF FailedAssert(a) # ""
     THEN /\ pc' = "aborted"
          /\ ret' = FailedAssert(a)
          /\ UNCHANGED <<initConsts, pdGains>>
     ELSE /\ gcInit_' = a.gcInit
          /\ gvInit_' = a.gvInit
          /\ actionMean_' = a.actionMean
          /\ actionStd_' = a.actionStd
          /\ pdGains' = <<a.pGain, a.dGain>>
          /\ ret' = <<>>
          /\ UNCHANGED pc
  /\ UNCHANGED <<obsVars, timing, pTarget_, vTarget_, footIndices_, server_,
                 robotGc, robotGv, pdTarget, genForceSqNorm, contacts, worldTimeStep,
                 integrating, serverVars>>

\* --------------------------------------------------------------------- step
\* PTargetTail without the offset actionMean_
PTargetTailNoMean(action, std, mean) == CwiseProduct(action, std)

\* pTargetTail = action.cast<double>().cwiseProduct(actionStd_) + actionMean_
PTargetTail(action, std, mean) == CwiseSum(CwiseProduct(action, std), mean)

\* lines 114-119: the PD target is computed and pushed to the robot
StepCall(action) ==
  /\ pc = "ready"
  /\ pTarget_' = SetTail(pTarget_, nJoints, PTargetTail(action, actionStd_, actionMean_))
  /\ pdTarget' = <<pTarget_', vTarget_>>
  /\ Enter("step", action)
  /\ pc' = "loop"
  /\ ret' = <<>>
  /\ UNCHANGED <<initConsts, obsVars, timing, vTarget_, footIndices_, server_,
                 robotGc, robotGv, pdGains, genForceSqNorm, contacts, worldTimeStep,
                 integrating, serverVars>>

\* line 121: the loop test i < int(control_dt_ / simulation_dt_ + 1e-10)
StepLoop ==
  /\ pc = "loop"
  /\ \E fe \in FpErrors :
       pc' = IF i < SubSteps(control_dt_, simulation_dt_, fe)
             THEN (IF server_ THEN "lock" ELSE "integrate")
             ELSE "update"
  /\ UNCHANGED <<envVars, robotVars, serverVars, loopVars, call, ret, initialized>>

\* StepLock going on to integrate without taking the mutex
StepLockSkipped ==
  /\ pc = "lock"
  /\ lockCount' = lockCount + 1
  /\ pc' = "integrate"
  /\ UNCHANGED <<envVars, robotVars, serverVars, i, integrateCount, call, ret, initialized>>

\* lines 123-124: server_->lockVisualizationServerMutex()
StepLock ==
  /\ pc = "lock"
  /\ visMutex = "free"
  /\ visMutex' = "controller"
  /\ lockCount' = lockCount + 1
  /\ pc' = "integrate"
  /\ UNCHANGED <<envVars, robotVars, killCount, i,
                 integrateCount, call, ret, initialized>>

\* line 125: world_->integrate() starts changing the world
IntegrateBegin ==
  /\ pc = "integrate"
  /\ integrating' = TRUE
  /\ pc' = "integrating"
  /\ UNCHANGED <<envVars, robotGc, robotGv, pdTarget, pdGains, genForceSqNorm, contacts,
                 worldTimeStep, serverVars, loopVars, call, ret, initialized>>

\* line 125: world_->integrate() returns; without a server the iteration ends here
IntegrateEnd ==
  /\ pc = "integrating"
  /\ \E o \in WorldOutcomes :
       /\ robotGc' = <<0, 0, o.h>> \o o.quat
                       \o (IF o.track THEN VecTail(pdTarget[1], nJoints)
                                      ELSE Zero(nJoints))
       /\ robotGv' = o.vlin \o o.vang \o Constant(nJoints, o.jv)
       /\ genForceSqNorm' = o.force
       /\ contacts' = o.contacts
  /\ integrating' = FALSE
  /\ integrateCount' = integrateCount + 1
  /\ IF server_
     THEN pc' = "unlock" /\ UNCHANGED i
     ELSE pc' = "loop" /\ i' = i + 1
  /\ UNCHANGED <<envVars, pdTarget, pdGains, worldTimeStep, serverVars, lockCount,
                 call, ret, initialized>>

\* lines 126-127: server_->unlockVisualizationServerMutex(), then i++
StepUnlock ==
  /\ pc = "unlock"
  /\ visMutex' = "free"
  /\ i' = i + 1
  /\ pc' = "loop"
  /\ UNCHANGED <<envVars, robotVars, killCount,
                 integrateCount, lockCount, call, ret, initialized>>

\* StepReturn computing the reward without updateObservation()
StepReturnStale ==
  /\ pc = "update"
  /\ ret' = Reward(genForceSqNorm, bodyLinearVel_)
  /\ pc' = "ready"
  /\ UNCHANGED <<envVars, robotVars, serverVars, loopVars, call, initialized>>

\* lines 129-134: updateObservation() and the reward
StepReturn ==
  /\ pc = "update"
  /\ UpdateObservation(robotGc, robotGv)
  /\ ret' = Reward(genForceSqNorm, bodyLinearVel_')
  /\ pc' = "ready"
  /\ UNCHANGED <<initConsts, timing, pTarget_, vTarget_, footIndices_, server_,
                 robotVars, serverVars, loopVars, call, initialized>>

\* ------------------------------------------------------------ renderer thread
Alive == pc \notin {"aborted", "crashed", "destroyed"}

\* the visualization server takes its mutex to read the world ...
RendererLock ==
  /\ server_
  /\ Alive
  /\ visMutex = "free"
  /\ visMutex' = "renderer"
  /\ UNCHANGED <<envVars, robotVars, killCount, loopVars,
                 pc, call, ret, initialized>>

\* ... and gives it back
RendererUnlock ==
  /\ visMutex = "renderer"
  /\ visMutex' = "free"
  /\ UNCHANGED <<envVars, robotVars, killCount, loopVars,
                 pc, call, ret, initialized>>

\* ----------------------------------------------------------- isTerminalState
IsTerminalState ==
  /\ pc = "ready"
  /\ Enter("isTerminalState", <<>>)
  /\ ret' = IF HasNonFootContact(contacts, footIndices_)
            THEN <<TRUE, CastFloat(terminalRewardCoeff_)>>
            ELSE <<FALSE, 0>>
  /\ UNCHANGED <<envVars, robotVars, serverVars, pc>>

\* ------------------------------------------------- no-ops, setters and getters
\* an operation that changes nothing and returns value
Query(op, arg, value) ==
  /\ pc = "ready"
  /\ Enter(op, arg)
  /\ ret' = value
  /\ UNCHANGED <<envVars, robotVars, serverVars, pc>>

\* Close shutting the server down as the destructor does
CloseKillsServer ==
  /\ pc = "ready"
  /\ Enter("close", <<>>)
  /\ ret' = <<>>
  /\ killCount' = IF server_ THEN killCount + 1 ELSE killCount
  /\ UNCHANGED <<envVars, robotVars, visMutex, pc>>

Close == Query("close", <<>>, <<>>)

SetSimulationTimeStep(dt) ==
  /\ pc = "ready"
  /\ simulation_dt_' = dt
  /\ worldTimeStep' = dt
  /\ Enter("setSimulationTimeStep", dt)
  /\ ret' = <<>>
  /\ UNCHANGED <<initConsts, obsVars, control_dt_, pTarget_, vTarget_, footIndices_,
                 server_, robotGc, robotGv, pdTarget, pdGains, genForceSqNorm, contacts,
                 integrating, serverVars, pc>>

SetControlTimeStep(dt) ==
  /\ pc = "ready"
  /\ control_dt_' = dt
  /\ Enter("setControlTimeStep", dt)
  /\ ret' = <<>>
  /\ UNCHANGED <<initConsts, obsVars, simulation_dt_, pTarget_, vTarget_, footIndices_,
                 server_, robotVars, serverVars, pc>>

\* ---------------------------------------------------------- visualization ops
\* server_->m(): with server_ set the server takes the command (its own state is
\* not the controller's); with server_ null the call is undefined: the process
\* dies, or the call comes back having done nothing
ServerCall(op) ==
  /\ pc = "ready"
  /\ Enter(op, <<>>)
  /\ ret' = <<>>
  /\ IF server_
     THEN UNCHANGED pc
     ELSE pc' \in {"crashed", "ready"}
  /\ UNCHANGED <<envVars, robotVars, serverVars>>

TurnOffVisualization ==
  ServerCall("turnOffVisualization")

TurnOnVisualization ==
  ServerCall("turnOnVisualization")

StartRecordingVideo ==
  ServerCall("startRecordingVideo")

StopRecordingVideo ==
  ServerCall("stopRecordingVideo")

\* ------------------------------------------------------------------ destructor
\* WalkerEnv::~WalkerEnv: if (server_) server_->killServer(), which joins the
\* server's thread
Destructor ==
  /\ pc = "ready"
  /\ pc' = "destroyed"
  /\ IF server_
     THEN killCount' = killCount + 1 /\ visMutex' = "free"
     ELSE UNCHANGED <<killCount, visMutex>>
  /\ Enter("destructor", <<>>)
  /\ ret' = <<>>
  /\ UNCHANGED <<envVars, robotVars>>

\* --------------------------------------------------------------- specification
Next ==
  \/ InitEnv
  \/ Reset
  \/ Observe
  \/ \E a \in InitConstantArgs : SetInitConstants(a)
  \/ \E action \in ActionVectors : StepCall(action)
  \/ StepLoop
  \/ StepLock
  \/ IntegrateBegin
  \/ IntegrateEnd
  \/ StepUnlock
  \/ StepReturn
  \/ RendererLock
  \/ RendererUnlock
  \/ IsTerminalState
  \/ Close
  \/ \E dt \in SimDts : SetSimulationTimeStep(dt)
  \/ \E dt \in ControlDts : SetControlTimeStep(dt)
  \/ TurnOffVisualization
  \/ TurnOnVisualization
  \/ StartRecordingVideo
  \/ StopRecordingVideo
  \/ Destructor

Spec == Init /\ [][Next]_vars

\* ------------------------------------------------------------------- claims
VisualizationOps ==
  {"turnOffVisualization", "turnOnVisualization", "startRecordingVideo", "stopRecordingVideo"}

StepPcs == {"loop", "lock", "integrate", "integrating", "unlock", "update"}

\* C1: after step(action) has pushed its PD target, the joint tail of the position
\* target is action * actionStd + actionMean entry by entry (with the stored
\* actionStd_, actionMean_), its base entries are zero, and the velocity target is
\* all zero; this is what the robot was given.
C1_PdTarget ==
  call.op = "step" =>
    /\ Len(pdTarget[1]) = gcDim
    /\ Len(pdTarget[2]) = gvDim
    /\ \A k \in 1..nJoints :
         pdTarget[1][gcDim - nJoints + k]
           = (call.arg[k] * actionStd_[k]) \div Scale + actionMean_[k]
    /\ \A k \in 1..(gcDim - nJoints) : pdTarget[1][k] = 0
    /\ \A k \in 1..gvDim : pdTarget[2][k] = 0
    /\ pTarget_ = pdTarget[1]
    /\ vTarget_ = pdTarget[2]

\* a step has returned after setInitConstants replaced the scaling
C1_Witness ==
  /\ call.op = "step"
  /\ pc = "ready"
  /\ actionStd_ = AltArgs.actionStd
  /\ call.arg[1] # 0
  /\ pdTarget[1][gcDim] # 0

\* C2: with a server attached the renderer never holds the mutex while integrate
\* is in progress; the controller holds the mutex exactly from just before one
\* integrate call until just after it, takes it once per sub-step, and does not
\* hold it when step has returned.
C2_LockPerSubStep ==
  /\ visMutex = "renderer" => ~integrating
  /\ (server_ /\ integrating) => visMutex = "controller"
  /\ visMutex = "controller" <=> (server_ /\ pc \in {"integrate", "integrating", "unlock"})
  /\ pc = "ready" => visMutex # "controller"
  /\ (server_ /\ call.op = "step") =>
       lockCount = integrateCount + (IF pc \in {"integrate", "integrating"} THEN 1 ELSE 0)

\* between two sub-steps of one step the renderer holds the mutex
C2_Witness ==
  /\ server_
  /\ pc = "lock"
  /\ integrateCount >= 1
  /\ visMutex = "renderer"

\* C3: isTerminalState returns (true, terminalRewardCoeff) exactly when some
\* contact's body is outside the foot set and (false, 0) otherwise, the empty
\* contact list included; the call changes nothing of the environment, the
\* robot or the server.
C3_Result ==
  call.op = "isTerminalState" =>
    ret = IF \E k \in 1..Len(contacts) : contacts[k] \notin footIndices_
          THEN <<TRUE, terminalRewardCoeff_>>
          ELSE <<FALSE, 0>>

C3_IsTerminalState ==
  /\ []C3_Result
  /\ [][(call'.op = "isTerminalState" /\ call.op # "isTerminalState")
          => UNCHANGED <<envVars, robotVars, serverVars, pc>>]_vars

\* the query answered true on a list whose first contact is a foot
C3_Witness ==
  /\ call.op = "isTerminalState"
  /\ Len(contacts) = 2
  /\ contacts[1] \in footIndices_
  /\ contacts[2] \notin footIndices_
  /\ ret[1] = TRUE

\* C4 as stated: whenever control is with the caller, construction included, the
\* stored observation is the observation of the robot's current state.
C4_Original ==
  pc = "ready" => obDouble_ = Observation(robotGc, robotGv)

\* C4 amended: once init(), reset() or step() has been called, whenever control is
\* with the caller the stored observation is the observation of the robot's
\* current state and observe copies out exactly that (narrowed to float); before
\* the first such call the stored observation is the zero vector of construction.
C4_Fresh ==
  /\ (pc = "ready" /\ initialized) => obDouble_ = Observation(robotGc, robotGv)
  /\ (pc = "ready" /\ ~initialized) => obDouble_ = Zero(obDim)
  /\ (pc = "ready" /\ initialized /\ call.op = "observe")
       => ret = CastFloatVec(Observation(robotGc, robotGv))
  /\ Len(obDouble_) = obDim

\* observe after a step that left the robot tumbled
C4_Witness ==
  /\ pc = "ready"
  /\ initialized
  /\ call.op = "observe"
  /\ robotGc[3] = 20
  /\ ret[1] = 20

\* C5: setInitConstants with an argument of the wrong length fails at once, naming
\* the violated assertion, and leaves gcInit_, gvInit_, actionMean_, actionStd_ and
\* the robot's PD gains as they were; no vector of the wrong length is ever stored.
C5_Lengths ==
  /\ Len(gcInit_) = gcDim
  /\ Len(gvInit_) = gvDim
  /\ Len(actionMean_) = actionDim
  /\ Len(actionStd_) = actionDim
  /\ Len(pdGains[1]) = gvDim
  /\ Len(pdGains[2]) = gvDim

C5_Fails ==
  call.op = "setInitConstants" =>
    IF \E f \in DOMAIN FieldDim : Len(call.arg[f]) # FieldDim[f]
    THEN pc = "aborted" /\ ret \in DOMAIN FieldDim /\ Len(call.arg[ret]) # FieldDim[ret]
    ELSE pc # "aborted"

C5_FailFast ==
  /\ [](C5_Lengths /\ C5_Fails)
  /\ [][pc' = "aborted" => UNCHANGED <<initConsts, pdGains>>]_vars

\* the last assertion failed on a call whose other arguments differ from what is stored
C5_Witness ==
  /\ pc = "aborted"
  /\ ret = "dGain"
  /\ gcInit_ = DefaultGcInit
  /\ call.arg.gcInit # gcInit_

\* C6 as stated: on an environment built without visualization the four
\* visualization calls come back with the environment ready.
C6_Original ==
  (~server_ /\ call.op \in VisualizationOps) => pc = "ready"

\* C7: a step that has returned made exactly floor(control_dt_ / simulation_dt_ +
\* 1e-10) integrate calls with the timing in force, 4 of them when the control step
\* is four simulation steps (0.02 and 0.005); a step in progress never exceeds
\* that count and can always go on, if need be after the renderer gives the mutex back.
FloorRatioEps(c, s) ==
  IF s - (c % s) > (s \div EpsInvRoot) \div EpsInvRoot THEN c \div s ELSE c \div s + 1

StepNext ==
  StepLoop \/ StepLock \/ IntegrateBegin \/ IntegrateEnd \/ StepUnlock \/ StepReturn

C7_SubStepCount ==
  /\ (call.op = "step" /\ pc = "ready")
       => integrateCount = FloorRatioEps(control_dt_, simulation_dt_)
  /\ (call.op = "step" /\ pc = "ready" /\ control_dt_ = 4 * simulation_dt_)
       => integrateCount = 4
  /\ pc \in StepPcs
       => /\ integrateCount <= FloorRatioEps(control_dt_, simulation_dt_)
          /\ ENABLED (StepNext \/ RendererUnlock)

\* a step with control step 4 and simulation step 1 has returned after 4 integrate calls
C7_Witness ==
  /\ call.op = "step"
  /\ pc = "ready"
  /\ control_dt_ = 4
  /\ simulation_dt_ = 1
  /\ integrateCount = 4

\* C8: after reset (and init) the robot is in state (gcInit_, gvInit_) and the
\* stored observation is the observation of (gcInit_, gvInit_), whatever happened
\* before: steps, earlier resets, leftover contacts and targets do not show in it.
C8_ResetObservation ==
  call.op \in {"reset", "init"} =>
    /\ pc = "ready"
    /\ robotGc = gcInit_
    /\ robotGv = gvInit_
    /\ obDouble_ = Observation(gcInit_, gvInit_)
    /\ obDouble_[1] = gcInit_[3]

\* a reset after a step that moved the robot and left contacts behind
C8_Witness ==
  /\ call.op = "reset"
  /\ contacts # <<>>
  /\ pTarget_ # Zero(gcDim)
  /\ gvInit_ = Zero(gvDim)
  /\ genForceSqNorm # 0

\* C9: the server is killed once, by the destructor, if the environment was built
\* with visualization, and never otherwise; close changes nothing, kills nothing
\* and can be called whenever the environment is ready.
C9_Kills ==
  /\ killCount = IF pc = "destroyed" /\ server_ THEN 1 ELSE 0
  /\ pc = "ready" => ENABLED Close

C9_KilledOnce ==
  /\ []C9_Kills
  /\ [][(call'.op = "close" /\ call.op # "close")
          => UNCHANGED <<envVars, robotVars, serverVars, pc>>]_vars
  /\ [][killCount' # killCount => (pc = "ready" /\ pc' = "destroyed")]_vars

\* an environment with a server has been destroyed
C9_Witness ==
  /\ pc = "destroyed"
  /\ server_
  /\ killCount = 1
  /\ initialized

\* C10 as stated: a step makes round(control_dt_ / simulation_dt_) integrate calls
Round(c, s) == (2 * c + s) \div (2 * s)

C10_Original ==
  (call.op = "step" /\ pc = "ready") => integrateCount = Round(control_dt_, simulation_dt_)

\* C10 amended: a step makes round(control_dt_ / simulation_dt_) integrate calls
\* when the fractional part of the ratio is below one half, as for every integer
\* ratio, and one fewer otherwise: the ratio is truncated, not rounded.
C10_Truncates ==
  (call.op = "step" /\ pc = "ready") =>
    integrateCount = IF 2 * (control_dt_ % simulation_dt_) < simulation_dt_
                     THEN Round(control_dt_, simulation_dt_)
                     ELSE Round(control_dt_, simulation_dt_) - 1

\* a step with ratio 3/2 has returned after a single integrate call
C10_Witness ==
  /\ call.op = "step"
  /\ pc = "ready"
  /\ control_dt_ = 3
  /\ simulation_dt_ = 2
  /\ integrateCount = 1

====
